---- MODULE Spec2Model ----
(***************************************************************************)
(* Filter engine, criteria checker and category manager of                *)
(* pyam_analysis/core.py (class IamDataFrame).                            *)
(*                                                                         *)
(* A string is a sequence of one-character strings (<<"m","1">> is "m1"), *)
(* so that the regular-expression matching of keep_col_match can be       *)
(* computed character by character.  A data frame is a sequence of rows,  *)
(* a boolean mask is a sequence of booleans of the same length.           *)
(***************************************************************************)
EXTENDS Integers, Sequences, FiniteSets, TLC

VARIABLES
    data,       \* self.data: the DataStore, a sequence of observations
    cat,        \* self.cat: entity key -> category label (NaN when unset)
    flt,        \* the caller's filter dict, passed by reference as `filters`
    flt0,       \* history: the caller's filter dict as the caller built it
    call,       \* history: the most recent call and its arguments
    result,     \* history: what the most recent call computed and returned
    catBefore,  \* history: self.cat before the most recent call
    rep,        \* history: the most recent call repeats the one before it
    ncalls      \* history: number of calls made in this session

vars == <<data, cat, flt, flt0, call, result, catBefore, rep, ncalls>>

(***************************************************************************)
(* Bounds of the model.                                                    *)
(***************************************************************************)
MaxRows == 3       \* observations in the DataStore (SpecCheck, Spec)
MaxCalls == 2      \* calls in one session (Spec)
MaxColLen == 3     \* characters of a column value (SpecMatch)
MaxPatLen == 2     \* characters of a filter string (SpecMatch)
MaxPats == 2       \* strings in a list-valued filter (SpecMatch)

(***************************************************************************)
(* Generic helpers.                                                        *)
(***************************************************************************)
Range(s) == {s[i] : i \in DOMAIN s}

RECURSIVE SetToSeq(_)
SetToSeq(S) ==
    IF S = {} THEN <<>>
    ELSE LET x == CHOOSE y \in S : TRUE IN <<x>> \o SetToSeq(S \ {x})

StringsUpTo(alphabet, n) == UNION {[1..k -> alphabet] : k \in 1..n}

SubsetsUpTo(S, n) == {T \in SUBSET S : Cardinality(T) <= n}

\* df[mask]: the rows of df whose mask entry is True, in order
RECURSIVE Masked(_, _)
Masked(df, mask) ==
    IF df = <<>> THEN <<>>
    ELSE (IF Head(mask) THEN <<Head(df)>> ELSE <<>>)
         \o Masked(Tail(df), Tail(mask))

\* drop_duplicates(): keeps the first occurrence of every row
RECURSIVE drop_duplicates(_)
drop_duplicates(df) ==
    IF df = <<>> THEN <<>>
    ELSE LET init == drop_duplicates(SubSeq(df, 1, Len(df) - 1))
             last == df[Len(df)]
         IN IF last \in Range(init) THEN init ELSE Append(init, last)

(***************************************************************************)
(* Filter values.  A filter dict maps each axis to a value; the value is  *)
(* absent, a scalar (tag "one": a str, or an int for year) or a list /    *)
(* range (tag "many").  vals holds the scalar as a one-element sequence.  *)
(***************************************************************************)
Absent == [tag |-> "absent", vals |-> <<>>]
One(v) == [tag |-> "one", vals |-> <<v>>]
Many(vs) == [tag |-> "many", vals |-> vs]

Axes == {"model", "scenario", "region", "variable", "year"}

NoFilters == [a \in Axes |-> Absent]

\* `not filters`: an empty dict (and None) is falsy
IsEmptyDict(f) == \A a \in Axes : f[a].tag = "absent"

(***************************************************************************)
(* Python's re, for the syntax the modelled strings can produce: literal  *)
(* characters, an escaped character, `.`, a postfix `*` and `$`.          *)
(* (An unescaped `|` or a leading `*` never reaches re.compile here: the  *)
(* model/scenario/region filter strings are drawn without them and the    *)
(* variable filter strings have them rewritten first.)                    *)
(***************************************************************************)
RECURSIVE replace(_, _, _)
replace(s, old, new) ==
    IF s = <<>> THEN <<>>
    ELSE (IF Head(s) = old THEN new ELSE <<Head(s)>>)
         \o replace(Tail(s), old, new)

\* s.replace('|', '\\|').replace('*', '.*') + "$"
pseudo_regex(s) ==
    replace(replace(s, "|", <<"\\", "|">>), "*", <<".", "*">>) \o <<"$">>

RECURSIVE re_compile(_)
re_compile(p) ==
    IF p = <<>> THEN <<>>
    ELSE LET esc == Head(p) = "\\" /\ Len(p) >= 2
             kind == IF esc THEN "lit"
                     ELSE IF Head(p) = "." THEN "any"
                     ELSE IF Head(p) = "$" THEN "end"
                     ELSE "lit"
             ch == IF esc THEN p[2] ELSE Head(p)
             rest == IF esc THEN SubSeq(p, 3, Len(p)) ELSE Tail(p)
             star == rest # <<>> /\ Head(rest) = "*"
         IN <<[kind |-> kind, ch |-> ch, star |-> star]>>
            \o re_compile(IF star THEN Tail(rest) ELSE rest)

\* pattern.match(s): the pattern matches at the start of s; nothing but a
\* `$` in the pattern makes it reach the end of s
RECURSIVE re_match(_, _)
re_match(toks, s) ==
    IF toks = <<>> THEN TRUE
    ELSE LET t == Head(toks)
             one == /\ s # <<>>
                    /\ \/ t.kind = "any"
                       \/ t.kind = "lit" /\ t.ch = Head(s)
         IN IF t.kind = "end" THEN s = <<>> /\ re_match(Tail(toks), s)
            ELSE IF t.star
                 THEN re_match(Tail(toks), s) \/ (one /\ re_match(toks, Tail(s)))
                 ELSE one /\ re_match(Tail(toks), Tail(s))

(***************************************************************************)
(* keep_col_match, keep_col_yr and select.                                 *)
(***************************************************************************)
keep_col_match(col, strings, pseudo) ==
    LET strs == strings.vals    \* a str is wrapped into a one-element list
        pattern(s) == re_compile(IF pseudo THEN pseudo_regex(s) ELSE s)
        \* filter(pattern.match, col), for every s in strings
        subset == [k \in DOMAIN strs |->
                      LET pat == pattern(strs[k])
                      IN {col[j] : j \in {i \in DOMAIN col : re_match(pat, col[i])}}]
    IN [i \in DOMAIN col |-> \E k \in DOMAIN strs : col[i] \in subset[k]]

keep_col_yr(col, yrs) ==
    IF yrs.tag = "one"
    THEN [i \in DOMAIN col |-> col[i] = yrs.vals[1]]
    ELSE [i \in DOMAIN col |-> col[i] \in Range(yrs.vals)]

\* the mask of one filter entry, as select() dispatches on the column name:
\* keep_col_match for model, scenario and region, keep_col_match with
\* pseudo_regex=True for variable, keep_col_yr for year
keep_col(d, col, values) ==
    LET column == [i \in DOMAIN d |-> d[i][col]]
    IN IF col = "year"
       THEN keep_col_yr(column, values)
       ELSE keep_col_match(column, values, col = "variable")

\* select(filters) with cols and idx_cols left at None
select(d, filters) ==
    LET given == {a \in Axes : filters[a].tag # "absent"}
        masks == [a \in given |-> keep_col(d, a, filters[a])]
        keep == [i \in DOMAIN d |-> \A a \in given : masks[a][i]]
    IN Masked(d, keep)

(***************************************************************************)
(* IamDataFrame.__init__: the category table holds every (model, scenario)*)
(* pair of the data, with category NaN.                                    *)
(***************************************************************************)
NaN == "NaN"

key_of(row) == <<row.model, row.scenario>>

init_cat(d) == [k \in {key_of(d[i]) : i \in DOMAIN d} |-> NaN]

(***************************************************************************)
(* IamDataFrame.check.  A check dict has the optional keys up, lo and     *)
(* year.  The dict check() writes to is the caller's own object whenever  *)
(* that object is non-empty (`if not filters: filters = {}`), so the      *)
(* filters field of the result is also what the caller's dict holds after *)
(* the call in that case.                                                  *)
(***************************************************************************)
check_filters(variable, chk, filters) ==
    LET base == IF IsEmptyDict(filters) THEN NoFilters ELSE filters
        with_year == IF chk.year.tag # "absent"
                     THEN [base EXCEPT !["year"] = chk.year]
                     ELSE base
    IN [with_year EXCEPT !["variable"] = One(variable)]

\* a variant of the per-row flag with a strict upper bound (value < up)
is_true_row_strict(chk, value) ==
    /\ chk.up.tag # "absent" => value < chk.up.vals[1]
    /\ chk.lo.tag # "absent" => value > chk.lo.vals[1]

\* the per-row flag: value <= up (when given) and value > lo (when given)
is_true_row(chk, value) ==
    /\ chk.up.tag # "absent" => value <= chk.up.vals[1]
    /\ chk.lo.tag # "absent" => value > chk.lo.vals[1]

\* df_agg = df.loc[is_true, [model, scenario, year]].groupby(...).count():
\* for every (model, scenario) with a satisfying row, the number of its rows
group_count(sat, g) == Cardinality({i \in DOMAIN sat : key_of(sat[i]) = g})

\* is_true, after the loop over check.items()
is_true_mask(chk, df) == [i \in DOMAIN df |-> is_true_row(chk, df[i].value)]

\* what check() returns, given the dict eff it selected with, the selection
\* df and the mask is_true.  index: the (model, scenario) index of the
\* returned frame; rows: its rows
check_return(eff, chk, ret_true, df, is_true) ==
    LET sat == Masked(df, is_true)
        one_year == drop_duplicates(
            [i \in DOMAIN sat |-> [model |-> sat[i].model,
                                   scenario |-> sat[i].scenario,
                                   year |-> sat[i].year]])
        num_yr == Cardinality({df[i].year : i \in DOMAIN df})
        groups == {key_of(sat[i]) : i \in DOMAIN sat}
    IN IF ret_true
       THEN IF chk.year.tag = "one"
            THEN [filters |-> eff, rows |-> one_year,
                  index |-> {key_of(one_year[i]) : i \in DOMAIN one_year}]
            ELSE [filters |-> eff, rows |-> <<>>,
                  index |-> {g \in groups : group_count(sat, g) = num_yr}]
       ELSE [filters |-> eff, index |-> {},
             rows |-> Masked(df, [i \in DOMAIN df |-> ~is_true[i]])]

check_frame(eff, chk, ret_true, df) ==
    check_return(eff, chk, ret_true, df, is_true_mask(chk, df))

check_select(d, eff, chk, ret_true) ==
    check_frame(eff, chk, ret_true, select(d, eff))

check(d, variable, chk, filters, ret_true) ==
    check_select(d, check_filters(variable, chk, filters), chk, ret_true)

\* what the dict passed as `filters` holds once check() has returned: an
\* empty dict (or None) is replaced by a local {} and stays as it was
filters_after(variable, chk, filters) ==
    IF IsEmptyDict(filters) THEN filters
    ELSE check_filters(variable, chk, filters)

(***************************************************************************)
(* IamDataFrame.validate (exclude=False).  criteria is the dict in its    *)
(* iteration order: a sequence of [var, check] with distinct var.         *)
(***************************************************************************)
RECURSIVE validate(_, _, _)
validate(d, criteria, filters) ==
    IF criteria = <<>> THEN [rows |-> <<>>, filters |-> filters]
    ELSE LET n == Len(criteria)
             before == validate(d, SubSeq(criteria, 1, n - 1), filters)
             c == criteria[n]
         IN [rows |-> before.rows
                      \o check(d, c.var, c.check, before.filters, FALSE).rows,
             filters |-> filters_after(c.var, c.check, before.filters)]

(***************************************************************************)
(* IamDataFrame.category with criteria: the loop over criteria.items()    *)
(* intersecting the index of every check, and the assignment.             *)
(***************************************************************************)
RECURSIVE category_loop(_, _, _, _)
category_loop(d, index, criteria, filters) ==
    IF criteria = <<>> THEN [index |-> index, filters |-> filters, parts |-> <<>>]
    ELSE LET n == Len(criteria)
             before == category_loop(d, index, SubSeq(criteria, 1, n - 1), filters)
             c == criteria[n]
             part == check(d, c.var, c.check, before.filters, TRUE).index
         IN [index |-> before.index \cap part,
             filters |-> filters_after(c.var, c.check, before.filters),
             parts |-> Append(before.parts, part)]

\* a variant of the assignment that labels the whole column
\* (self.cat['category'] = name)
loc_assign_all(table, index, name) == [k \in DOMAIN table |-> name]

\* self.cat.loc[cat, 'category'] = name
loc_assign(table, index, name) ==
    [k \in DOMAIN table |-> IF k \in index THEN name ELSE table[k]]

\* the table after category(name, criteria, filters, assign)
category_table(table, index, name, assign) ==
    IF index # {} /\ assign THEN loc_assign(table, index, name) ELSE table

\* what category() hands back; display defaults to the builtin `list`,
\* which equals neither 'list' nor 'pivot'
BuiltinList == "<class 'list'>"

category_return(index, display, nonempty_needed) ==
    IF nonempty_needed /\ index = {} THEN [kind |-> "None", index |-> {}]
    ELSE IF display = "list" THEN [kind |-> "frame", index |-> index]
    ELSE IF display = "pivot" THEN [kind |-> "pivot", index |-> index]
    ELSE [kind |-> "None", index |-> {}]

\* category(name) without criteria: the keys whose category is name
category_read(table, name) == {k \in DOMAIN table : table[k] = name}

(***************************************************************************)
(* Inputs: names, observations, check dicts, criteria and filter dicts.    *)
(***************************************************************************)
m1 == <<"m", "1">>
m2 == <<"m", "2">>
s1 == <<"s", "1">>
r1 == <<"r", "1">>
r2 == <<"r", "2">>
VarE == <<"E">>                 \* stands for "Emissions"
VarEC == <<"E", "|", "C">>      \* stands for "Emissions|CO2"
Unit == <<"u">>

Obs(m, r, v, y, x) ==
    [model |-> m, scenario |-> s1, region |-> r, variable |-> v,
     unit |-> Unit, year |-> y, value |-> x]

Years == {2010, 2020}
Values == {5, 10}

\* one value per (model, scenario, region, variable, year), as in the
\* timeseries snapshots the DataStore is loaded from
OneValue(S) ==
    \A a \in S, b \in S :
        [a EXCEPT !.value = 0] = [b EXCEPT !.value = 0] => a = b

DataSets(universe) ==
    {SetToSeq(S) : S \in {T \in SubsetsUpTo(universe, MaxRows) : OneValue(T)}}

\* observations of SpecCheck: m1 in two regions, m2 in one, two variables
CheckObs ==
    {Obs(m1, r, VarE, y, x) : r \in {r1, r2}, y \in Years, x \in Values}
    \cup {Obs(m2, r1, VarE, 2010, x) : x \in Values}
    \cup {Obs(m1, r1, VarEC, 2010, x) : x \in Values}

\* observations of Spec
CatObs ==
    {Obs(m1, r1, VarE, 2010, 5), Obs(m1, r1, VarE, 2020, 5),
     Obs(m1, r1, VarE, 2020, 10), Obs(m1, r1, VarEC, 2010, 5),
     Obs(m1, r2, VarE, 2010, 10), Obs(m2, r1, VarE, 2010, 10)}

Check3(up, lo, year) == [up |-> up, lo |-> lo, year |-> year]
NoCheck == Check3(Absent, Absent, Absent)

\* check dicts of SpecCheck
CheckDicts ==
    {Check3(up, lo, year) :
        up \in {Absent, One(5), One(10)}, lo \in {Absent, One(5)},
        year \in {Absent, One(2010), Many(<<2010, 2020>>)}}

\* check dicts inside a criteria dict
UpAll == Check3(One(5), Absent, Absent)
Up2010 == Check3(One(5), Absent, One(2010))
LoAll == Check3(Absent, One(5), Absent)
CriteriaChecks == {UpAll, Up2010, LoAll}

Variables == {VarE, VarEC}

Criterion(v, c) == [var |-> v, check |-> c]

\* criteria dicts of SpecCheck: one or two variables, in iteration order
Criteria ==
    {<<Criterion(v, c)>> : v \in Variables, c \in CriteriaChecks}
    \cup {cr \in {<<Criterion(v, c), Criterion(w, e)>> :
                    v \in Variables, w \in Variables, c \in CriteriaChecks,
                    e \in CriteriaChecks} : cr[1].var # cr[2].var}

\* criteria dicts of Spec
SessionCriteria ==
    {<<Criterion(VarE, c)>> : c \in CriteriaChecks}
    \cup {<<Criterion(VarEC, Up2010)>>,
          <<Criterion(VarE, UpAll), Criterion(VarEC, Up2010)>>,
          <<Criterion(VarEC, Up2010), Criterion(VarE, UpAll)>>}

RegionR1 == [NoFilters EXCEPT !["region"] = One(r1)]

\* the caller's filter dict: empty, a region filter, and a region filter
\* that also carries year and variable entries
CallerFilters ==
    {NoFilters, RegionR1,
     [RegionR1 EXCEPT !["year"] = Many(<<2020>>), !["variable"] = One(VarEC)]}

Names == {"A", "B"}
Displays == {BuiltinList, "list"}

\* SpecMatch: a DataStore of rows that differ in one string column, and
\* filter dicts with one entry on that column
AxisChars == {"m", "1", "0"}
VarChars == {"E", "|"}
VarPatChars == {"E", "|", ".", "*"}

MatchData(n) ==
    {<<Obs(s, r1, VarE, 2010, 5)>> : s \in StringsUpTo(AxisChars, n)}
    \cup {<<Obs(m1, r1, s, 2010, 5)>> : s \in StringsUpTo(VarChars, n)}

\* a string, or a list of up to k strings
FilterValues(strs, k) ==
    {One(s) : s \in strs}
    \cup UNION {{Many(l) : l \in [1..j -> strs]} : j \in 1..k}

MatchFilters(n, k) ==
    {[NoFilters EXCEPT !["model"] = v] :
        v \in FilterValues(StringsUpTo(AxisChars, n), k)}
    \cup {[NoFilters EXCEPT !["variable"] = v] :
        v \in FilterValues(StringsUpTo(VarPatChars, n), k)}

(***************************************************************************)
(* The calls.  Every call passes the caller's dict flt as `filters` (an    *)
(* empty flt is also what leaving `filters` out amounts to: None and {}    *)
(* are both replaced by a local {}).  The call is recorded in call and    *)
(* result; ncalls counts the calls.                                        *)
(***************************************************************************)
Call(op) ==
    [op |-> op, name |-> "", variable |-> <<>>, chk |-> NoCheck,
     criteria |-> <<>>, filters |-> NoFilters, ret_true |-> TRUE,
     display |-> ""]

Result(kind, index, rows, parts) ==
    [kind |-> kind, index |-> index, rows |-> rows, parts |-> parts]

\* select(filters)
Select(filters) ==
    /\ call' = [Call("select") EXCEPT !.filters = filters]
    /\ result' = Result("frame", {}, select(data, filters), <<>>)
    /\ catBefore' = cat
    /\ rep' = FALSE
    /\ ncalls' = ncalls + 1
    /\ UNCHANGED <<data, cat, flt, flt0>>

\* check(variable, check, filters, ret_true)
Check(variable, chk, ret_true) ==
    LET r == check(data, variable, chk, flt, ret_true)
    IN /\ flt' = filters_after(variable, chk, flt)
       /\ call' = [Call("check") EXCEPT !.variable = variable, !.chk = chk,
                       !.filters = flt, !.ret_true = ret_true]
       /\ result' = Result("frame", r.index, r.rows, <<>>)
       /\ catBefore' = cat
       /\ rep' = FALSE
       /\ ncalls' = ncalls + 1
       /\ UNCHANGED <<data, cat, flt0>>

\* validate(criteria, filters)
Validate(criteria) ==
    LET r == validate(data, criteria, flt)
    IN /\ flt' = r.filters
       /\ call' = [Call("validate") EXCEPT !.criteria = criteria,
                       !.filters = flt]
       /\ result' = Result(IF r.rows # <<>> THEN "frame" ELSE "None",
                           {}, r.rows, <<>>)
       /\ catBefore' = cat
       /\ rep' = FALSE
       /\ ncalls' = ncalls + 1
       /\ UNCHANGED <<data, cat, flt0>>

\* category(name, criteria, filters, display=display), assign left at True
Category(name, criteria, display) ==
    LET r == category_loop(data, DOMAIN cat, criteria, flt)
        ret == category_return(r.index, display, TRUE)
    IN /\ cat' = category_table(cat, r.index, name, TRUE)
       /\ flt' = r.filters
       /\ call' = [Call("category") EXCEPT !.name = name,
                       !.criteria = criteria, !.filters = flt,
                       !.display = display]
       /\ result' = Result(ret.kind, r.index, <<>>, r.parts)
       /\ catBefore' = cat
       /\ rep' = /\ call.op = "category"
                 /\ call.name = name
                 /\ call.criteria = criteria
       /\ ncalls' = ncalls + 1
       /\ UNCHANGED <<data, flt0>>

\* category(name, display=display) without criteria
CategoryRead(name, display) ==
    LET ret == category_return(category_read(cat, name), display, FALSE)
    IN /\ call' = [Call("read") EXCEPT !.name = name, !.display = display]
       /\ result' = Result(ret.kind, ret.index, <<>>, <<>>)
       /\ catBefore' = cat
       /\ rep' = FALSE
       /\ ncalls' = ncalls + 1
       /\ UNCHANGED <<data, cat, flt, flt0>>

(***************************************************************************)
(* Specifications.                                                         *)
(***************************************************************************)
Loaded(datasets, filterdicts) ==
    /\ data \in datasets
    /\ cat = init_cat(data)
    /\ flt \in filterdicts
    /\ flt0 = flt
    /\ call = Call("none")
    /\ result = Result("None", {}, <<>>, <<>>)
    /\ catBefore = cat
    /\ rep = FALSE
    /\ ncalls = 0

\* Spec: a session of category() calls on one DataStore, the caller
\* passing the same dict flt to every call
Init == Loaded(DataSets(CatObs), {NoFilters, RegionR1})

CategoryCall ==
    /\ ncalls < MaxCalls
    /\ \E n \in Names, cr \in SessionCriteria : Category(n, cr, BuiltinList)

ReadCall ==
    /\ ncalls < MaxCalls
    /\ \E n \in Names, d \in Displays : CategoryRead(n, d)

Next == CategoryCall \/ ReadCall

Spec == Init /\ [][Next]_vars

\* SpecCheck: one check() or validate() call on one DataStore
InitCheck == Loaded(DataSets(CheckObs), CallerFilters)

CheckCall ==
    /\ ncalls = 0
    /\ \E v \in Variables, c \in CheckDicts, rt \in BOOLEAN : Check(v, c, rt)

ValidateCall ==
    /\ ncalls = 0
    /\ \E cr \in Criteria : Validate(cr)

NextCheck == CheckCall \/ ValidateCall

SpecCheck == InitCheck /\ [][NextCheck]_vars

\* SpecMatch: one select() call with a filter on one string column
InitMatch == Loaded(MatchData(MaxColLen), {NoFilters})

SelectCall ==
    /\ ncalls = 0
    /\ \E f \in MatchFilters(MaxPatLen, MaxPats) : Select(f)

NextMatch == SelectCall

SpecMatch == InitMatch /\ [][NextMatch]_vars

(***************************************************************************)
(* The vocabulary of the stated properties: exact-equality filtering, the  *)
(* effective year constraint of a check and the bounds on a value.         *)
(***************************************************************************)
DataRows == Range(data)

EntityAxes == {"model", "scenario", "region"}

\* the value of the row on axis a is identical to one of the given strings
AxisEqual(row, filters, a) ==
    filters[a].tag = "absent" \/ row[a] \in Range(filters[a].vals)

WithinFilters(row, filters) == \A a \in EntityAxes : AxisEqual(row, filters, a)

\* the caller's year entry overlaid with the check's own year
YearOverlay(chk, filters) ==
    IF chk.year.tag # "absent" THEN chk.year ELSE filters["year"]

InYears(row, yrs) == yrs.tag = "absent" \/ row.year \in Range(yrs.vals)

\* the observations a check of `variable` is about
Selected(row, variable, chk, filters) ==
    /\ row.variable = variable
    /\ WithinFilters(row, filters)
    /\ InYears(row, YearOverlay(chk, filters))

WithinBounds(chk, value) ==
    /\ chk.up.tag = "absent" \/ value <= chk.up.vals[1]
    /\ chk.lo.tag = "absent" \/ value > chk.lo.vals[1]

Triple(row) == [model |-> row.model, scenario |-> row.scenario, year |-> row.year]

RECURSIVE Intersection(_, _)
Intersection(all, parts) ==
    IF parts = <<>> THEN all ELSE Head(parts) \cap Intersection(all, Tail(parts))

(***************************************************************************)
(* The stated properties.                                                  *)
(***************************************************************************)

\* C1: a satisfying-mode check whose year is absent or a list returns an
\* entity key if and only if the number of distinct years in which the key
\* has a row within the bounds equals the number of distinct years of the
\* selection.
C1_DistinctYearCount ==
    (call.op = "check" /\ call.ret_true /\ call.chk.year.tag # "one") =>
        LET sel == {row \in DataRows :
                        Selected(row, call.variable, call.chk, call.filters)}
            allYears == {row.year : row \in sel}
            satYears(k) == {row.year : row \in
                               {x \in sel : /\ key_of(x) = k
                                            /\ WithinBounds(call.chk, x.value)}}
        IN result.index =
               {k \in {key_of(row) : row \in sel} :
                    Cardinality(satYears(k)) = Cardinality(allYears)}

\* C2: after category(name, criteria, filters) the qualifying set Q is the
\* intersection of the satisfying-mode check results, every key in Q is
\* labelled name, every other key keeps its label, the table is unchanged
\* when Q is empty, and a criteria variable absent from the data gives an
\* empty Q.
C2_CategoryFrame ==
    call.op = "category" =>
        LET Q == result.index
            present == {data[i].variable : i \in DOMAIN data}
        IN /\ Q = Intersection(DOMAIN catBefore, result.parts)
           /\ Len(result.parts) = Len(call.criteria)
           /\ result.parts[1] =
                  check(data, call.criteria[1].var, call.criteria[1].check,
                        call.filters, TRUE).index
           /\ IsEmptyDict(call.filters) =>
                  \A n \in DOMAIN call.criteria :
                      result.parts[n] =
                          check(data, call.criteria[n].var,
                                call.criteria[n].check, NoFilters, TRUE).index
           /\ DOMAIN cat = DOMAIN catBefore
           /\ \A k \in DOMAIN cat :
                  cat[k] = IF k \in Q THEN call.name ELSE catBefore[k]
           /\ Q = {} => cat = catBefore
           /\ (\E n \in DOMAIN call.criteria :
                   call.criteria[n].var \notin present)
                  => Q = {} /\ cat = catBefore

\* C2 witness: a category call labelled a non-empty Q while a key outside Q
\* kept the different label it had before.
C2_Witness ==
    /\ call.op = "category"
    /\ result.index # {}
    /\ \E k \in DOMAIN cat \ result.index :
           /\ catBefore[k] \notin {NaN, call.name}
           /\ cat[k] = catBefore[k]

\* C3: a category call that repeats the previous one (same name, criteria
\* and filter object) leaves the assignment table as the first call left it.
C3_Idempotent == rep => cat = catBefore

\* C4: the keys of the assignment table are those of the data at load time,
\* every key that qualifies for a category call carries that call's name
\* afterwards, and a read category(name) returns exactly the keys that
\* currently carry the label name.
C4_OverwriteAndRead ==
    /\ DOMAIN cat = {key_of(row) : row \in DataRows}
    /\ call.op = "category" => \A k \in result.index : cat[k] = call.name
    /\ call.op = "read" =>
           \A k \in DOMAIN cat : (k \in result.index) <=> (cat[k] = call.name)

\* C5: the caller's filter dict holds the same entries after every call as
\* when the caller built it.
C5_FiltersNotMutated == flt = flt0

\* C6: select() with a model filter keeps exactly the observations whose
\* model is identical to one of the given strings.
C6_ExactEquality ==
    (call.op = "select" /\ call.filters["model"].tag # "absent") =>
        Range(result.rows) =
            {row \in DataRows : AxisEqual(row, call.filters, "model")}

\* C7: select() with variable filter strings that hold no `*` keeps exactly
\* the observations whose variable is identical to one of them, and the
\* pattern "E*" keeps every observation whose variable starts with "E".
C7_VariableEquality ==
    (call.op = "select" /\ call.filters["variable"].tag # "absent") =>
        LET strs == call.filters["variable"].vals
        IN /\ (\A k \in DOMAIN strs : "*" \notin Range(strs[k])) =>
                  Range(result.rows) =
                      {row \in DataRows : row.variable \in Range(strs)}
           /\ <<"E", "*">> \in Range(strs) =>
                  \A row \in DataRows :
                      Head(row.variable) = "E" => row \in Range(result.rows)

\* C8: a satisfying-mode check with a single integer year Y returns, keyed
\* by (model, scenario), exactly the distinct (model, scenario, Y) triples
\* that have an observation of the variable in year Y, within the caller's
\* filters, with value <= up (when given) and value > lo (when given).
C8_SingleYearTriples ==
    (call.op = "check" /\ call.ret_true /\ call.chk.year.tag = "one") =>
        LET Y == call.chk.year.vals[1]
            triples == {Triple(row) : row \in
                           {x \in DataRows :
                                /\ x.variable = call.variable
                                /\ x.year = Y
                                /\ WithinFilters(x, call.filters)
                                /\ WithinBounds(call.chk, x.value)}}
        IN /\ Range(result.rows) = triples
           /\ Len(result.rows) = Cardinality(triples)
           /\ result.index = {<<t.model, t.scenario>> : t \in triples}

\* C8 witness: a single-year check with both bounds returned an entity for
\* a row whose value equals up and left out an entity whose only selected
\* row has a value equal to lo.
C8_Witness ==
    /\ call.op = "check" /\ call.ret_true /\ call.chk.year.tag = "one"
    /\ call.chk.up.tag = "one" /\ call.chk.lo.tag = "one"
    /\ \E i \in DOMAIN data :
           /\ Selected(data[i], call.variable, call.chk, call.filters)
           /\ data[i].value = call.chk.up.vals[1]
           /\ key_of(data[i]) \in result.index
    /\ \E i \in DOMAIN data :
           /\ Selected(data[i], call.variable, call.chk, call.filters)
           /\ data[i].value = call.chk.lo.vals[1]
           /\ key_of(data[i]) \notin result.index

\* C9: validate(criteria, filters) reports the union, over the variables of
\* criteria, of the observations of that variable (within the caller's
\* filters and the variable's own year constraint) that are outside that
\* variable's bounds, and leaves the assignment table as it was.
C9_ValidateReport ==
    call.op = "validate" =>
        /\ Range(result.rows) =
               UNION {{row \in DataRows :
                          /\ Selected(row, call.criteria[n].var,
                                      call.criteria[n].check, call.filters)
                          /\ ~WithinBounds(call.criteria[n].check, row.value)} :
                      n \in DOMAIN call.criteria}
        /\ cat = catBefore

\* C10: the qualifying set of a category call is the intersection of the
\* checks of its variables, each evaluated against the caller's filters as
\* they were passed (overlaid with that variable's own year only), so that
\* it does not depend on the order of the criteria.
C10_OrderIndependent ==
    call.op = "category" =>
        result.index =
            Intersection(DOMAIN catBefore,
                         [n \in DOMAIN call.criteria |->
                             check(data, call.criteria[n].var,
                                   call.criteria[n].check,
                                   call.filters, TRUE).index])

====
